---- MODULE Spec2Model ----
(***************************************************************************)
(* A model of setup.py of pyopal: the build_ext command that probes the    *)
(* compiler for SIMD support (AVX2, SSE4, SSE2, NEON), plans the extension *)
(* modules it can build, cythonizes them and compiles each of them in a    *)
(* folder of its own.                                                      *)
(*                                                                         *)
(* One behaviour is one run of the build_ext command.  The host (its CPU   *)
(* family and compiler), the command-line toggles, the availability of     *)
(* Cython and the list of declared extension modules are chosen in Init;   *)
(* the outcome of every compiler, linker and test-binary invocation is     *)
(* chosen when the step runs.                                              *)
(***************************************************************************)
EXTENDS Naturals, Sequences, FiniteSets, TLC

\* How many of the modules of ext_modules a run may leave undeclared.
MaxOmitted == 1

\* --- Values --------------------------------------------------------------

\* The keys of _simd_supported, _simd_flags, _simd_defines, _simd_disabled.
SIMD == {"AVX2", "SSE2", "NEON", "SSE4"}

\* The values TARGET_CPU can take ("None" is Python's None).
CPUS == {"mips", "aarch64", "arm", "x86", "ppc", "None"}

\* compiler.compiler_type: the MSVC family and the GCC/Clang family.
CompilerTypes == {"unix", "msvc"}

\* Python's None as the value of Extension.requires.
None == "None"

\* A path is the sequence of its components; os.path.join appends one.
join(base, name) == Append(base, name)

\* The value of build_temp the command is finalized with.
BuildTemp0 == <<"build", "temp">>

\* A source file: folder, stem and suffix.
Source(dir, stem, suffix) == [dir |-> dir, stem |-> stem, suffix |-> suffix]

\* Extension.__init__: requires defaults to None, the argument lists to [].
Extension(name, requires, sources) ==
    [name |-> name, requires |-> requires, sources |-> sources,
     extra_compile_args |-> <<>>, extra_link_args |-> <<>>]

OpalCpp == Source("vendor/opal/src", "opal", "cpp")

\* The ext_modules argument of setuptools.setup, in its order.
ext_modules ==
    << Extension("pyopal._opal_neon", "NEON",
                 <<OpalCpp, Source("pyopal", "_opal_neon", "pyx")>>),
       Extension("pyopal._opal_sse2", "SSE2",
                 <<OpalCpp, Source("pyopal", "_opal_sse2", "pyx")>>),
       Extension("pyopal._opal_sse4", "SSE4",
                 <<OpalCpp, Source("pyopal", "_opal_sse4", "pyx")>>),
       Extension("pyopal._opal_avx2", "AVX2",
                 <<OpalCpp, Source("pyopal", "_opal_avx2", "pyx")>>),
       Extension("pyopal._opal", None,
                 <<Source("vendor/opal/src", "ScoreMatrix", "cpp"),
                   Source("pyopal", "_opal", "pyx")>>) >>

ExtNames == {ext_modules[i].name : i \in DOMAIN ext_modules}

\* The lists build_ext.extensions may hold when build_extensions is called:
\* ext_modules with at most MaxOmitted of its modules left out.
DeclaredLists ==
    { SelectSeq(ext_modules, LAMBDA e : e.name \notin omit) :
        omit \in {o \in SUBSET ExtNames : Cardinality(o) <= MaxOmitted} }

\* --- The toolchain flag map ----------------------------------------------

_avx2_flags(ct) == IF ct = "msvc" THEN <<"/arch:AVX2">> ELSE <<"-mavx", "-mavx2">>

_sse2_flags(ct) == IF ct = "msvc" THEN <<>> ELSE <<"-msse2">>

_sse4_flags(ct) == IF ct = "msvc" THEN <<"/arch:AVX">> ELSE <<"-msse4.1">>

_neon_flags(cpu) == IF cpu = "arm" THEN <<"-mfpu=neon">> ELSE <<>>

\* The flags the probe of extension e is run with, and that are recorded.
FlagsOf(e, ct, cpu) ==
    CASE e = "AVX2" -> _avx2_flags(ct)
      [] e = "SSE2" -> _sse2_flags(ct)
      [] e = "SSE4" -> _sse4_flags(ct)
      [] e = "NEON" -> _neon_flags(cpu)

\* The macro recorded in _simd_defines for a supported extension.
DefineOf(e) ==
    CASE e = "AVX2" -> <<"__AVX2__", 1>>
      [] e = "SSE2" -> <<"__SSE2__", 1>>
      [] e = "SSE4" -> <<"__SSE4_1__", 1>>
      [] e = "NEON" -> <<"__ARM_NEON__", 1>>

\* --- State ---------------------------------------------------------------

VARIABLES
    TARGET_CPU,         \* the normalized architecture family of the host
    compiler_type,      \* self.compiler.compiler_type
    cythonize_ok,       \* FALSE when `cythonize` is the ImportError
    _simd_disabled,     \* the toggles --disable-avx2 ... --disable-neon
    _simd_supported,    \* the capability matrix: supported
    _simd_flags,        \* the capability matrix: flags
    _simd_defines,      \* the capability matrix: macros
    declared,           \* self.extensions as build_extensions receives it
    self_extensions,    \* self.extensions (replaced by cythonize's result)
    extensions,         \* the local list `extensions`: the build plan
    planned,            \* TRUE once the filter loop has run
    build_temp,         \* self.build_temp
    have_run_clib,      \* distribution.have_run["build_clib"]
    clib_built,         \* the static library cpu_features has been built
    func_checked,       \* history: build_clib has run a _check_function probe
    pc,                 \* position in the run of the command
    todo,               \* the probes build_extensions has still to reach
    p_name,             \* the extension _check_simd_generic is probing
    p_pc,               \* position inside _check_simd_generic
    p_objects,          \* its local `objects`
    p_exc,              \* the exception pending in its try block
    fs,                 \* the files of the probes in the build directory
    objstore,           \* the object files of the extension modules
    next_ext,           \* index of the next module build_extension is given
    error,              \* the exception that ended the run
    probed,             \* history: the extensions a probe was invoked for
    probe_outcome,      \* history: how each probe's steps went
    probe_result,       \* history: what each probe's invocation ended with
    probe_flags,        \* history: the `flags` each probe was invoked with
    generated,          \* history: the files probes have created
    cythonized,         \* history: cythonize has been called
    built,              \* history: per module, where and from what it was built
    t_pc,               \* per module: position of the thread building it
    t_build_temp        \* per module: that thread's local `_build_temp`

vars == <<TARGET_CPU, compiler_type, cythonize_ok, _simd_disabled,
          _simd_supported, _simd_flags, _simd_defines, declared,
          self_extensions, extensions, planned, build_temp, have_run_clib,
          clib_built, pc, todo, p_name, p_pc, p_objects, p_exc, fs, objstore,
          next_ext, error, probed, probe_outcome, probe_result, generated,
          cythonized, built, func_checked, probe_flags, t_pc, t_build_temp>>

hostVars == <<TARGET_CPU, compiler_type, cythonize_ok, _simd_disabled, declared>>

matrixVars == <<_simd_supported, _simd_flags, _simd_defines>>

probeVars == <<p_name, p_pc, p_objects, p_exc>>

probeHist == <<probed, probe_outcome, probe_result, generated, probe_flags>>

clibVars == <<clib_built, func_checked>>

threadVars == <<t_pc, t_build_temp>>

buildVars == <<objstore, next_ext, built, cythonized>>

\* initialize_options and finalize_options have run; nothing is built yet.
Init ==
    /\ TARGET_CPU \in CPUS
    /\ compiler_type \in CompilerTypes
    /\ cythonize_ok \in BOOLEAN
    /\ _simd_disabled \in [SIMD -> BOOLEAN]
    /\ _simd_supported = [e \in SIMD |-> FALSE]
    /\ _simd_flags = [e \in SIMD |-> <<>>]
    /\ _simd_defines = [e \in SIMD |-> <<>>]
    /\ declared \in DeclaredLists
    /\ self_extensions = declared
    /\ extensions = <<>>
    /\ planned = FALSE
    /\ build_temp = BuildTemp0
    /\ have_run_clib = FALSE
    /\ clib_built = FALSE
    /\ pc = "start"
    /\ todo = <<>>
    /\ p_name = None
    /\ p_pc = "idle"
    /\ p_objects = {}
    /\ p_exc = None
    /\ fs = {}
    /\ objstore = {}
    /\ next_ext = 1
    /\ error = None
    /\ probed = {}
    /\ probe_outcome = [e \in SIMD |-> None]
    /\ probe_result = [e \in SIMD |-> None]
    /\ generated = {}
    /\ cythonized = FALSE
    /\ built = [n \in {} |-> None]
    /\ func_checked = FALSE
    /\ probe_flags = [e \in SIMD |-> None]
    /\ t_pc = [i \in DOMAIN ext_modules |-> "idle"]
    /\ t_build_temp = [i \in DOMAIN ext_modules |-> None]

\* --- The probe: _check_simd_generic ---------------------------------------

\* A file of the build directory: folder, base name and suffix.
File(dir, base, suffix) == [dir |-> dir, base |-> base, suffix |-> suffix]

\* "have_{}".format(name)
Base(name) == <<"have", name>>

\* testfile: build_temp/have_<name>.c
TestFile(bt, name) == File(bt, Base(name), "c")

\* compiler.compile without output_dir puts the object next to its source.
ObjFile(bt, name, ct) == File(bt, Base(name), IF ct = "msvc" THEN "obj" ELSE "o")

\* binfile: compiler.executable_filename(base, output_dir=build_temp)
BinFile(bt, name, ct) == File(bt, Base(name), IF ct = "msvc" THEN "exe" ELSE "")

\* The if/elif chain of build_extensions: which probes a host family reaches,
\* in the order it reaches them.
ProbeOrderElse(cpu) ==
    IF cpu = "x86" THEN <<"AVX2", "SSE4", "SSE2">>
    ELSE <<"NEON">>

ProbeOrder(cpu) ==
    IF cpu = "x86" THEN <<"AVX2", "SSE4", "SSE2">>
    ELSE IF cpu = "arm" \/ cpu = "aarch64" THEN <<"NEON">>
    ELSE <<>>

\* `not self._simd_disabled[E]`, the left operand of each `and`.
ProbeWantedAlways(e) == TRUE

ProbeWanted(e) == ~_simd_disabled[e]

\* The except clauses of _check_simd_generic: the exceptions it handles.
Caught(exc) == exc \in {"CompileError", "CalledProcessError"}

\* What _check_simd_generic returns, by the exception pending (None: else).
ProbeValueAlwaysTrue(exc) == TRUE

ProbeValue(exc) == exc # "CompileError"

\* The finally clause: remove the test file, the objects that are files and
\* the binary if it is a file.
CleanupKeepsBinary(files, testfile, objects, binfile) ==
    files \ ({testfile} \cup {o \in objects : o \in files})

Cleanup(files, testfile, objects, binfile) ==
    files \ ({testfile} \cup {o \in objects : o \in files} \cup {binfile})

\* The build command runs build_clib before build_ext; build_ext run alone
\* finds have_run["build_clib"] unset.
\* build_libraries probes for functions (_check_function) and compiles the
\* library; a compiler error ends the run of the build command.
BuildClibCommand ==
    /\ pc = "start"
    /\ ~have_run_clib
    /\ func_checked' = TRUE
    /\ \E ok \in BOOLEAN :
        /\ clib_built' = ok
        /\ have_run_clib' = ok
        /\ pc' = (IF ok THEN pc ELSE "failed")
        /\ error' = (IF ok THEN error ELSE "CompileError")
    /\ UNCHANGED <<hostVars, threadVars, matrixVars, self_extensions,
                   extensions, planned, build_temp, todo, probeVars, fs,
                   buildVars, probeHist>>

\* The message of the RuntimeError raised when Cython is missing.
CythonError == "RuntimeError: Cython is required"

\* build_extensions, first statement: `cythonize` must not be an ImportError.
CheckCythonAfterClib ==
    /\ pc = "start"
    /\ IF cythonize_ok
       THEN pc' = "clib" /\ error' = error /\ UNCHANGED clibVars
       ELSE /\ pc' = "failed" /\ error' = CythonError
            /\ clib_built' = (IF have_run_clib THEN clib_built ELSE TRUE)
            /\ func_checked' = (IF have_run_clib THEN func_checked ELSE TRUE)
    /\ UNCHANGED <<hostVars, threadVars, matrixVars, self_extensions,
                   extensions, planned, build_temp, have_run_clib, todo,
                   probeVars, fs, buildVars, probeHist>>

CheckCython ==
    /\ pc = "start"
    /\ IF cythonize_ok
       THEN pc' = "clib" /\ error' = error
       ELSE pc' = "failed" /\ error' = CythonError
    /\ UNCHANGED <<hostVars, threadVars, matrixVars, self_extensions, extensions, planned,
                   build_temp, have_run_clib, clibVars, todo, probeVars, fs,
                   buildVars, probeHist>>

\* build_extensions: compile the C libraries unless build_clib has run, then
\* enter the platform-specific checks.
RunClib ==
    /\ pc = "clib"
    /\ IF have_run_clib
       THEN /\ pc' = "probes"
            /\ todo' = ProbeOrder(TARGET_CPU)
            /\ UNCHANGED <<clibVars, error>>
       ELSE /\ func_checked' = TRUE
            /\ \E ok \in BOOLEAN :
                /\ clib_built' = ok
                /\ pc' = (IF ok THEN "probes" ELSE "failed")
                /\ error' = (IF ok THEN error ELSE "CompileError")
                /\ todo' = (IF ok THEN ProbeOrder(TARGET_CPU) ELSE todo)
    /\ UNCHANGED <<hostVars, threadVars, matrixVars, self_extensions,
                   extensions, planned, build_temp, have_run_clib, probeVars,
                   fs, buildVars, probeHist>>

\* `if not self._simd_disabled[E] and ...` with E disabled: the probe is not
\* called and the branch is skipped.
ProbeSkip ==
    /\ pc = "probes" /\ p_name = None /\ todo # <<>>
    /\ ~ProbeWanted(Head(todo))
    /\ todo' = Tail(todo)
    /\ UNCHANGED <<hostVars, threadVars, matrixVars, self_extensions, extensions, planned,
                   build_temp, have_run_clib, clibVars, pc, probeVars, fs,
                   buildVars, error, probeHist>>

\* _check_simd_generic up to its try block: the test file is written.
ProbeEnter ==
    /\ pc = "probes" /\ p_name = None /\ todo # <<>>
    /\ ProbeWanted(Head(todo))
    /\ LET e == Head(todo) IN
        /\ p_name' = e
        /\ p_pc' = "try"
        /\ p_objects' = {}
        /\ p_exc' = None
        /\ fs' = fs \cup {TestFile(build_temp, e)}
        /\ generated' = generated \cup {TestFile(build_temp, e)}
        /\ probed' = probed \cup {e}
        /\ probe_flags' = [probe_flags EXCEPT ![e] =
                             FlagsOf(e, compiler_type, TARGET_CPU)]
    /\ UNCHANGED <<hostVars, threadVars, matrixVars, self_extensions, extensions, planned,
                   build_temp, have_run_clib, clibVars, pc, todo, buildVars,
                   error, probe_outcome, probe_result>>

\* compiler.compile([testfile], extra_preargs=flags): the object file, or
\* CompileError with `objects` left unassigned.
ProbeCompile ==
    /\ p_pc = "try"
    /\ \E ok \in BOOLEAN :
        LET obj == ObjFile(build_temp, p_name, compiler_type) IN
        IF ok
        THEN /\ p_objects' = {obj}
             /\ fs' = fs \cup {obj}
             /\ generated' = generated \cup {obj}
             /\ p_pc' = "compiled"
             /\ UNCHANGED <<p_exc, probe_outcome>>
        ELSE /\ p_exc' = "CompileError"
             /\ p_pc' = "finally"
             /\ probe_outcome' = [probe_outcome EXCEPT ![p_name] = "compile_failed"]
             /\ UNCHANGED <<p_objects, fs, generated>>
    /\ UNCHANGED <<hostVars, threadVars, matrixVars, self_extensions, extensions, planned,
                   build_temp, have_run_clib, clibVars, pc, todo, p_name,
                   buildVars, error, probed, probe_flags, probe_result>>

\* compiler.link_executable(objects, base, ...): the binary, or LinkError,
\* after which the linker may or may not have left a file at binfile.
ProbeLink ==
    /\ p_pc = "compiled"
    /\ \E ok \in BOOLEAN, left \in BOOLEAN :
        LET bin == BinFile(build_temp, p_name, compiler_type) IN
        IF ok
        THEN /\ fs' = fs \cup {bin}
             /\ generated' = generated \cup {bin}
             /\ p_pc' = "linked"
             /\ UNCHANGED <<p_exc, probe_outcome>>
        ELSE /\ p_exc' = "LinkError"
             /\ p_pc' = "finally"
             /\ probe_outcome' = [probe_outcome EXCEPT ![p_name] = "link_failed"]
             /\ fs' = (IF left THEN fs \cup {bin} ELSE fs)
             /\ generated' = (IF left THEN generated \cup {bin} ELSE generated)
    /\ UNCHANGED <<hostVars, threadVars, matrixVars, self_extensions, extensions, planned,
                   build_temp, have_run_clib, clibVars, pc, todo, p_name,
                   p_objects, buildVars, error, probed, probe_flags, probe_result>>

\* subprocess.run([binfile], check=True): exit status 0, a nonzero exit
\* status (CalledProcessError), or the binary cannot be launched (OSError).
ProbeRun ==
    /\ p_pc = "linked"
    /\ \E r \in {"exit_zero", "exit_nonzero", "launch_failed"} :
        /\ p_exc' = CASE r = "exit_zero" -> None
                      [] r = "exit_nonzero" -> "CalledProcessError"
                      [] r = "launch_failed" -> "OSError"
        /\ probe_outcome' = [probe_outcome EXCEPT ![p_name] = r]
    /\ p_pc' = "finally"
    /\ UNCHANGED <<hostVars, threadVars, matrixVars, self_extensions, extensions, planned,
                   build_temp, have_run_clib, clibVars, pc, todo, p_name,
                   p_objects, fs, buildVars, error, probed, probe_flags, probe_result,
                   generated>>

\* The finally clause, then the end of the call: an exception no except
\* clause names leaves build_extensions; otherwise the probe returns and the
\* body of the `if` records a supported extension.
ProbeReturn ==
    /\ p_pc = "finally"
    /\ fs' = Cleanup(fs, TestFile(build_temp, p_name), p_objects,
                     BinFile(build_temp, p_name, compiler_type))
    /\ p_name' = None /\ p_pc' = "idle" /\ p_objects' = {} /\ p_exc' = None
    /\ IF p_exc # None /\ ~Caught(p_exc)
       THEN /\ pc' = "failed"
            /\ error' = p_exc
            /\ probe_result' = [probe_result EXCEPT ![p_name] = "raised"]
            /\ UNCHANGED <<matrixVars, todo>>
       ELSE /\ probe_result' = [probe_result EXCEPT ![p_name] =
                                  IF ProbeValue(p_exc) THEN "True" ELSE "False"]
            /\ IF ProbeValue(p_exc)
               THEN /\ _simd_supported' = [_simd_supported EXCEPT ![p_name] = TRUE]
                    /\ _simd_flags' = [_simd_flags EXCEPT ![p_name] =
                                         @ \o FlagsOf(p_name, compiler_type, TARGET_CPU)]
                    /\ _simd_defines' = [_simd_defines EXCEPT ![p_name] =
                                           Append(@, DefineOf(p_name))]
               ELSE UNCHANGED matrixVars
            /\ todo' = Tail(todo)
            /\ UNCHANGED <<pc, error>>
    /\ UNCHANGED <<hostVars, threadVars, self_extensions, extensions, planned, build_temp,
                   have_run_clib, clibVars, buildVars, probed, probe_flags, probe_outcome,
                   generated>>

\* --- The build plan -------------------------------------------------------

\* The filter loop's test: a module with no requirement, or one whose
\* requirement the capability matrix reports supported.
SelectedOnlyWithRequirement(ext, supported) ==
    ext.requires # None /\ supported[ext.requires]

Selected(ext, supported) ==
    ext.requires = None \/ supported[ext.requires]

\* The filter loop's body for a module with a requirement: the recorded
\* flags are appended to its compile and to its link arguments.
WithFlagsCompileOnly(ext, flags) ==
    IF ext.requires = None
    THEN ext
    ELSE [ext EXCEPT !.extra_compile_args = @ \o flags[ext.requires]]

WithFlags(ext, flags) ==
    IF ext.requires = None
    THEN ext
    ELSE [ext EXCEPT !.extra_compile_args = @ \o flags[ext.requires],
                     !.extra_link_args = @ \o flags[ext.requires]]

\* The list `extensions` the filter loop builds from self.extensions.
FilterExtensions(exts, supported, flags) ==
    LET kept == SelectSeq(exts, LAMBDA e : Selected(e, supported))
    IN  [i \in DOMAIN kept |-> WithFlags(kept[i], flags)]

\* The filter loop follows the whole if/elif chain of the probes: no probe
\* is in progress and none is left to reach.
ProbesDoneBetweenProbes == p_name = None

ProbesDone == p_name = None /\ todo = <<>>

\* `if not extensions`
PlanIsEmptyNever(plan) == FALSE

PlanIsEmpty(plan) == plan = <<>>

\* build_extensions after the probes: filter out the modules missing their
\* CPU feature, and raise if none is left.
PlanExtensions ==
    /\ pc = "probes" /\ ProbesDone
    /\ LET plan == FilterExtensions(self_extensions, _simd_supported, _simd_flags) IN
        /\ extensions' = plan
        /\ planned' = TRUE
        /\ IF PlanIsEmpty(plan)
           THEN /\ pc' = "failed"
                /\ error' = "RuntimeError: no SIMD backend supported"
           ELSE /\ pc' = "cythonize"
                /\ error' = error
    /\ UNCHANGED <<hostVars, threadVars, matrixVars, self_extensions, build_temp,
                   have_run_clib, clibVars, todo, probeVars, fs, buildVars,
                   probeHist>>

\* cythonize turns each .pyx source of a module into a .cpp source.
CythonizeSource(src) ==
    IF src.suffix = "pyx" THEN [src EXCEPT !.suffix = "cpp"] ELSE src

CythonizeExt(ext) ==
    [ext EXCEPT !.sources = [i \in DOMAIN @ |-> CythonizeSource(@[i])]]

\* self.extensions = cythonize(extensions, **cython_args)
Cythonize ==
    /\ pc = "cythonize"
    /\ self_extensions' = [i \in DOMAIN extensions |-> CythonizeExt(extensions[i])]
    /\ cythonized' = TRUE
    /\ pc' = "build"
    /\ next_ext' = 1
    /\ UNCHANGED <<hostVars, threadVars, matrixVars, extensions, planned, build_temp,
                   have_run_clib, clibVars, todo, probeVars, fs, objstore,
                   built, error, probeHist>>

\* --- Building one module: build_extension --------------------------------

\* The arguments build_extension adds in release mode: the C++17 flags.
Cxx17Args(ct) ==
    IF ct = "msvc"
    THEN <<"/std:c17">>
    ELSE <<"-funroll-loops", "-std=c++17", "-Wno-unused-variable",
           "-Wno-maybe-uninitialized", "-Wno-return-type">>

\* The folder a module is compiled in: os.path.join(_build_temp, ext.name).
VariantDirShared(bt, name) == bt

VariantDir(bt, name) == join(bt, name)

\* The objects of the store that sit where `dir` and `sources` put them.
ObjectsAt(store, dir, sources) ==
    {o \in store : o.dir = dir /\ \E i \in DOMAIN sources : o.src = sources[i]}

\* The objects _build_ext.build_extension compiles for a module in `dir`.
\* Where an object of the same path is in the build folder already, the
\* toolchain either takes it as cached (reuse, the case the comment of
\* build_extension is about) or compiles the source again.
NewObjects(store, dir, ext, reuse) ==
    { [dir |-> dir, src |-> ext.sources[i], by |-> ext.name,
       args |-> ext.extra_compile_args] :
        i \in {j \in DOMAIN ext.sources :
                 ~reuse \/ ~\E o \in store : o.dir = dir /\ o.src = ext.sources[j]} }

\* The build folder after the compilation: a new object replaces the object
\* of the same path.
Compiled(store, fresh) ==
    {o \in store : ~\E n \in fresh : n.dir = o.dir /\ n.src = o.src} \cup fresh

\* build_extension(ext) for the next module of self.extensions, as the serial
\* loop of _build_ext.build_extensions calls it.  A compiler or linker error
\* leaves the method before build_temp is restored and ends the run.
BuildExtension ==
    /\ pc = "build"
    /\ next_ext <= Len(self_extensions)
    /\ LET ext == [self_extensions[next_ext] EXCEPT
                     !.extra_compile_args = @ \o Cxx17Args(compiler_type)]
           _build_temp == build_temp
           dir == VariantDir(_build_temp, ext.name)
       IN \E outcome \in {"ok", "CompileError", "LinkError"}, reuse \in BOOLEAN :
            /\ self_extensions' = [self_extensions EXCEPT ![next_ext] = ext]
            /\ IF outcome = "ok"
               THEN /\ objstore' = Compiled(objstore, NewObjects(objstore, dir, ext, reuse))
                    /\ built' = built @@ (ext.name :>
                                  [dir |-> dir,
                                   objects |-> ObjectsAt(objstore', dir, ext.sources)])
                    /\ build_temp' = _build_temp
                    /\ next_ext' = next_ext + 1
                    /\ UNCHANGED <<pc, error>>
               ELSE /\ build_temp' = dir
                    /\ pc' = "failed"
                    /\ error' = outcome
                    /\ UNCHANGED <<objstore, built, next_ext>>
    /\ UNCHANGED <<hostVars, threadVars, matrixVars, extensions, planned, have_run_clib,
                   clibVars, todo, probeVars, fs, cythonized, probeHist>>

\* The loop over self.extensions has ended.
BuildDone ==
    /\ pc = "build"
    /\ next_ext > Len(self_extensions)
    /\ pc' = "done"
    /\ UNCHANGED <<hostVars, threadVars, matrixVars, self_extensions, extensions, planned,
                   build_temp, have_run_clib, clibVars, todo, probeVars, fs,
                   buildVars, error, probeHist>>

\* --- The specification ---------------------------------------------------

Next ==
    \/ BuildClibCommand
    \/ CheckCython
    \/ RunClib
    \/ ProbeSkip
    \/ ProbeEnter
    \/ ProbeCompile
    \/ ProbeLink
    \/ ProbeRun
    \/ ProbeReturn
    \/ PlanExtensions
    \/ Cythonize
    \/ BuildExtension
    \/ BuildDone

Spec == Init /\ [][Next]_vars

\* --- Properties -----------------------------------------------------------

\* The module called `name` is in the build plan.
InPlan(name) == \E i \in DOMAIN extensions : extensions[i].name = name

\* The declared modules that require extension e.
Requiring(e) == {declared[i].name : i \in {j \in DOMAIN declared : declared[j].requires = e}}

Gated == {"x86", "arm", "aarch64"}

EmptyPlanError == "RuntimeError: no SIMD backend supported"

\* C1: once the plan is computed, a declared module that requires extension
\* E is in the plan if and only if E is not disabled and the capability
\* matrix reports E supported; no module requiring a disabled E is planned.
C1_PlannedIffEnabledAndSupported ==
    planned =>
        \A e \in SIMD : \A n \in Requiring(e) :
            /\ InPlan(n) <=> (~_simd_disabled[e] /\ _simd_supported[e])
            /\ _simd_disabled[e] => ~InPlan(n)

\* C1 witness: on x86, SSE2 is disabled and its module is declared but not
\* planned, while the AVX2 module was probed, found supported and planned.
C1_Witness ==
    /\ planned /\ TARGET_CPU = "x86"
    /\ _simd_disabled["SSE2"] /\ Requiring("SSE2") # {}
    /\ ~InPlan("pyopal._opal_sse2")
    /\ ~_simd_disabled["AVX2"] /\ _simd_supported["AVX2"]
    /\ InPlan("pyopal._opal_avx2")

\* C2: the AVX2, SSE4 and SSE2 probes are invoked only on x86, the NEON
\* probe only on arm or aarch64; on any other family no probe is invoked,
\* nothing is marked supported and no planned module has a requirement.
C2_ArchitectureGating ==
    /\ probed \cap {"AVX2", "SSE4", "SSE2"} # {} => TARGET_CPU = "x86"
    /\ "NEON" \in probed => TARGET_CPU \in {"arm", "aarch64"}
    /\ TARGET_CPU \notin Gated =>
        /\ probed = {} /\ p_name = None
        /\ \A e \in SIMD : ~_simd_supported[e]
        /\ \A i \in DOMAIN extensions : extensions[i].requires = None

\* C2 witness: a finished run on mips with NEON and AVX2 enabled and their
\* modules declared: nothing was probed, only the baseline was built.
C2_Witness ==
    /\ pc = "done" /\ TARGET_CPU = "mips"
    /\ ~_simd_disabled["NEON"] /\ ~_simd_disabled["AVX2"]
    /\ Requiring("NEON") # {} /\ Requiring("AVX2") # {}
    /\ probed = {} /\ Len(extensions) = 1

\* C3: an empty plan ends the run with the RuntimeError, before cythonize
\* is called and with no module compiled; cythonize and the compilation of
\* modules are only ever reached with a non-empty plan.
C3_EmptyPlanIsFatal ==
    /\ (planned /\ extensions = <<>>) =>
          /\ pc = "failed" /\ error = EmptyPlanError
          /\ ~cythonized /\ DOMAIN built = {} /\ objstore = {}
    /\ (pc \in {"cythonize", "build", "done"} \/ cythonized) =>
          (planned /\ extensions # <<>>)

\* C3 witness: the plan was computed and is empty, on a host whose probes
\* ran (x86) and found nothing supported.
C3_Witness ==
    /\ planned /\ extensions = <<>> /\ pc = "failed"
    /\ TARGET_CPU = "x86" /\ probed # {}

\* C4: with the declared list ext_modules, the module without a requirement
\* (pyopal._opal) is in the plan, so the plan is not empty.
C4_BaselineAlwaysPlanned ==
    (planned /\ declared = ext_modules) =>
        (InPlan("pyopal._opal") /\ extensions # <<>>)

\* C4 witness: every extension of x86 is enabled and probed, no probe
\* reports support, and the plan holds the baseline alone.
C4_Witness ==
    /\ planned /\ declared = ext_modules /\ TARGET_CPU = "x86"
    /\ probed = {"AVX2", "SSE4", "SSE2"}
    /\ \A e \in SIMD : ~_simd_supported[e]
    /\ Len(extensions) = 1 /\ InPlan("pyopal._opal")

\* C5 (as claimed): on a host family without accelerated extensions, with
\* the declared list ext_modules, planning ends in the empty-plan error.
C5_UnsupportedHostFails ==
    (planned /\ declared = ext_modules /\ TARGET_CPU \notin Gated) =>
        (pc = "failed" /\ error = EmptyPlanError)

\* What holds of an extension whose probe ended after its compile step
\* failed: the probe returned False, the extension is unsupported and no
\* planned module requires it.
C6_AfterCompileFailure ==
    \A e \in SIMD :
        (probe_outcome[e] = "compile_failed" /\ p_name # e) =>
            /\ probe_result[e] = "False"
            /\ ~_simd_supported[e]
            /\ _simd_flags[e] = <<>>
            /\ \A i \in DOMAIN extensions : extensions[i].requires # e

\* The step that ends a probe whose compile step failed: nothing is raised
\* and build_extensions goes on to what follows the probe.
C6_ReturnStep ==
    (p_pc = "finally" /\ p_exc = "CompileError") =>
        /\ pc' = "probes" /\ error' = None
        /\ todo' = Tail(todo)
        /\ probe_result'[p_name] = "False"
        /\ ~_simd_supported'[p_name]

\* C6: a probe whose compile step fails returns False without raising, its
\* extension stays unsupported, none of its modules is planned, and the
\* build continues with the next probe.
C6_CompileFailureIsUnsupported ==
    []C6_AfterCompileFailure /\ [][C6_ReturnStep]_vars

\* C6 witness: the AVX2 probe failed to compile, the SSE4 probe ran after
\* it and succeeded, and the plan holds the SSE4 module but not the AVX2 one.
C6_Witness ==
    /\ planned /\ probe_outcome["AVX2"] = "compile_failed"
    /\ Requiring("AVX2") # {} /\ ~InPlan("pyopal._opal_avx2")
    /\ probe_outcome["SSE4"] = "exit_zero" /\ InPlan("pyopal._opal_sse4")

\* C7 (as claimed), with the declared list ext_modules: a probe whose
\* program compiled and linked but did not run, by a nonzero exit status or
\* by a failure to launch, returns True, and every declared module requiring
\* the extension is planned.
C7_RunFailureIsSupported ==
    \A e \in SIMD :
        (/\ declared = ext_modules
         /\ probe_outcome[e] \in {"exit_nonzero", "launch_failed"}
         /\ p_name # e) =>
            /\ probe_result[e] = "True"
            /\ planned => \A n \in Requiring(e) : InPlan(n)

\* C8 (as claimed), with the declared list ext_modules: every invocation of
\* a probe ends by returning True or False, whatever its compile, link and
\* execute steps did.
C8_ProbeNeverRaises ==
    declared = ext_modules =>
        \A e \in probed : p_name # e => probe_result[e] \in {"True", "False"}

\* C9: when no probe is in progress, none of the files probes have
\* generated is in the build directory.
C9_ProbeFilesRemoved ==
    p_name = None => fs \cap generated = {}

\* C9 witness: a probe wrote its test file, its object and its binary, the
\* binary could not be launched, the probe raised and has ended.
C9_Witness ==
    /\ p_name = None
    /\ \E e \in SIMD :
        /\ probe_outcome[e] = "launch_failed" /\ probe_result[e] = "raised"
        /\ {TestFile(build_temp, e), ObjFile(build_temp, e, compiler_type),
            BinFile(build_temp, e, compiler_type)} \subseteq generated

\* C10: each module built is compiled in the scratch directory joined with
\* its own name, two distinct modules in different directories, and every
\* object a module is built from was compiled for that module.
C10_OwnDirectory ==
    \A a \in DOMAIN built :
        /\ built[a].dir = join(BuildTemp0, a)
        /\ \A o \in built[a].objects : o.by = a
        /\ \A b \in DOMAIN built \ {a} :
            /\ built[a].dir # built[b].dir
            /\ built[a].objects \cap built[b].objects = {}

\* C10 witness: the SSE2 and the AVX2 module, both with opal.cpp among
\* their sources, have been built one after the other.
C10_Witness ==
    /\ {"pyopal._opal_sse2", "pyopal._opal_avx2"} \subseteq DOMAIN built
    /\ \A a \in {"pyopal._opal_sse2", "pyopal._opal_avx2"} :
        \E o \in built[a].objects : o.src = OpalCpp

\* The names of the modules of a list, in its order.
Names(seq) == [i \in DOMAIN seq |-> seq[i].name]

\* Cythonize or the compilation of the modules has started.
Compiling == pc \in {"cythonize", "build", "done"} \/ cythonized \/ DOMAIN built # {}

\* What holds once compilation has started: the plan is computed, no probe
\* is in progress and none is left to reach.
C11_ProbesBeforeCompilation ==
    Compiling => (planned /\ p_name = None /\ p_pc = "idle" /\ todo = <<>>)

\* A step taken once compilation has started invokes no probe and changes
\* neither the capability matrix nor the planned modules.
C11_FrozenStep ==
    Compiling =>
        /\ probed' = probed /\ p_name' = None /\ fs' = fs
        /\ _simd_supported' = _simd_supported
        /\ _simd_flags' = _simd_flags
        /\ _simd_defines' = _simd_defines
        /\ extensions' = extensions
        /\ Names(self_extensions') = Names(extensions)

\* C11: every probe has completed and the plan is fixed before the first
\* module is compiled; afterwards no probe runs and neither the capability
\* matrix nor the set of planned modules changes.
C11_PlanFixedBeforeCompilation ==
    []C11_ProbesBeforeCompilation /\ [][C11_FrozenStep]_vars

\* C11 witness: on x86 all three probes ran, two modules with a requirement
\* have been compiled and a third module is still to be built.
C11_Witness ==
    /\ pc = "build" /\ probed = {"AVX2", "SSE4", "SSE2"}
    /\ Cardinality(DOMAIN built) = 2
    /\ next_ext <= Len(self_extensions)

\* C12 (as claimed), with the declared list ext_modules: when the run ends
\* in the Cython error, no capability probe, no function-availability
\* probe, no static-library compilation and no module compilation has
\* happened, whether or not build_clib ran before build_ext.
C12_CythonErrorBeforeAnyWork ==
    (declared = ext_modules /\ error = CythonError) =>
        /\ probed = {} /\ DOMAIN built = {}
        /\ ~func_checked /\ ~clib_built

\* C12 (amended): when the run ends in the Cython error, no capability
\* probe has run and nothing is planned, cythonized or compiled for a
\* module; and unless the build_clib command had run before build_ext, no
\* function-availability probe has run and no static library is compiled.
C12_CythonErrorFirstInBuildExt ==
    error = CythonError =>
        /\ pc = "failed"
        /\ probed = {} /\ generated = {} /\ fs = {}
        /\ ~planned /\ ~cythonized
        /\ DOMAIN built = {} /\ objstore = {}
        /\ ~have_run_clib => (~func_checked /\ ~clib_built)

\* C12 witness: build_ext run on its own, without Cython: the error is
\* raised with the static library not built and no function probed.
C12_Witness ==
    /\ error = CythonError /\ ~cythonize_ok
    /\ ~have_run_clib /\ ~clib_built /\ ~func_checked

\* C14: once the plan is computed, each planned module requiring E has as
\* compile and as link arguments exactly the flags the probe of E was run
\* with, which are the flag map's for the compiler family; a module with
\* no requirement has no extension flags; and an unsupported extension has
\* no recorded flags and no recorded macros.
C14_FlagsAsProbed ==
    /\ planned =>
        \A i \in DOMAIN extensions :
            LET x == extensions[i] IN
            IF x.requires = None
            THEN x.extra_compile_args = <<>> /\ x.extra_link_args = <<>>
            ELSE /\ _simd_supported[x.requires]
                 /\ x.extra_compile_args = probe_flags[x.requires]
                 /\ x.extra_link_args = probe_flags[x.requires]
                 /\ probe_flags[x.requires] =
                        FlagsOf(x.requires, compiler_type, TARGET_CPU)
    /\ \A e \in SIMD :
        IF _simd_supported[e]
        THEN _simd_flags[e] = probe_flags[e]
        ELSE _simd_flags[e] = <<>> /\ _simd_defines[e] = <<>>

\* C14 witness: under MSVC on x86 the AVX2 module is planned with
\* /arch:AVX2 and the SSE2 module with no flag at all, next to the
\* baseline; SSE4 was probed and left unsupported.
C14_Witness ==
    /\ planned /\ compiler_type = "msvc" /\ TARGET_CPU = "x86"
    /\ InPlan("pyopal._opal_avx2") /\ InPlan("pyopal._opal_sse2")
    /\ InPlan("pyopal._opal")
    /\ "SSE4" \in probed /\ ~_simd_supported["SSE4"]
    /\ \E i \in DOMAIN extensions :
        /\ extensions[i].requires = "AVX2"
        /\ extensions[i].extra_link_args = <<"/arch:AVX2">>

\* C15 (as claimed), with the declared list ext_modules: after every call
\* of build_extension, successful or failed, build_temp has the value it had
\* before the call, which is the original scratch directory.
C15_BuildTempRestored ==
    declared = ext_modules => build_temp = BuildTemp0

\* --- The parallel build: build_ext --parallel -----------------------------

\* The number of worker threads of the pool (the option --parallel).
Workers == 2

\* The thread building module i is inside build_extension.
Active(i) == t_pc[i] \in {"saved", "set", "compiled"}

\* The pool hands the modules to its workers in the order of
\* self.extensions, to at most Workers threads at a time.  build_extension up
\* to `_build_temp = self.build_temp`: the module's own arguments are
\* extended and the shared build_temp is read into the thread's local.
ParBegin(i) ==
    /\ pc = "build"
    /\ i \in DOMAIN self_extensions
    /\ t_pc[i] = "idle"
    /\ \A j \in DOMAIN self_extensions : j < i => t_pc[j] # "idle"
    /\ Cardinality({j \in DOMAIN self_extensions : Active(j)}) < Workers
    /\ self_extensions' = [self_extensions EXCEPT ![i] =
          [@ EXCEPT !.extra_compile_args = @ \o Cxx17Args(compiler_type)]]
    /\ t_build_temp' = [t_build_temp EXCEPT ![i] = build_temp]
    /\ t_pc' = [t_pc EXCEPT ![i] = "saved"]
    /\ UNCHANGED <<hostVars, matrixVars, extensions, planned, build_temp,
                   have_run_clib, clibVars, pc, todo, probeVars, fs,
                   buildVars, error, probeHist>>

\* self.build_temp = os.path.join(_build_temp, ext.name)
ParSet(i) ==
    /\ pc = "build"
    /\ i \in DOMAIN self_extensions
    /\ t_pc[i] = "saved"
    /\ build_temp' = VariantDir(t_build_temp[i], self_extensions[i].name)
    /\ t_pc' = [t_pc EXCEPT ![i] = "set"]
    /\ UNCHANGED <<hostVars, matrixVars, self_extensions, extensions, planned,
                   have_run_clib, clibVars, pc, todo, probeVars, fs,
                   buildVars, error, probeHist, t_build_temp>>

\* _build_ext.build_extension(self, ext): the sources are compiled into the
\* folder self.build_temp names when the call reads it; an error leaves
\* build_extension at once.
ParCompile(i) ==
    /\ pc = "build"
    /\ i \in DOMAIN self_extensions
    /\ t_pc[i] = "set"
    /\ LET ext == self_extensions[i]
           dir == build_temp
       IN \E ok \in BOOLEAN, reuse \in BOOLEAN :
            IF ok
            THEN /\ objstore' = Compiled(objstore, NewObjects(objstore, dir, ext, reuse))
                 /\ built' = built @@ (ext.name :>
                               [dir |-> dir,
                                objects |-> ObjectsAt(objstore', dir, ext.sources)])
                 /\ t_pc' = [t_pc EXCEPT ![i] = "compiled"]
            ELSE /\ t_pc' = [t_pc EXCEPT ![i] = "raised"]
                 /\ UNCHANGED <<objstore, built>>
    /\ UNCHANGED <<hostVars, matrixVars, self_extensions, extensions, planned,
                   build_temp, have_run_clib, clibVars, pc, todo, probeVars,
                   fs, next_ext, cythonized, error, probeHist, t_build_temp>>

\* self.build_temp = _build_temp
ParRestore(i) ==
    /\ pc = "build"
    /\ i \in DOMAIN self_extensions
    /\ t_pc[i] = "compiled"
    /\ build_temp' = t_build_temp[i]
    /\ t_pc' = [t_pc EXCEPT ![i] = "done"]
    /\ UNCHANGED <<hostVars, matrixVars, self_extensions, extensions, planned,
                   have_run_clib, clibVars, pc, todo, probeVars, fs,
                   buildVars, error, probeHist, t_build_temp>>

\* Every thread has ended: the results are collected, and the error of a
\* failed module ends the run.
ParDone ==
    /\ pc = "build"
    /\ \A i \in DOMAIN self_extensions : t_pc[i] \in {"done", "raised"}
    /\ IF \E i \in DOMAIN self_extensions : t_pc[i] = "raised"
       THEN pc' = "failed" /\ error' = "CompileError"
       ELSE pc' = "done" /\ error' = error
    /\ UNCHANGED <<hostVars, threadVars, matrixVars, self_extensions,
                   extensions, planned, build_temp, have_run_clib, clibVars,
                   todo, probeVars, fs, buildVars, probeHist>>

\* A run of build_ext with the parallel option set: the base
\* build_extensions calls build_extension from the threads of a pool.
NextPar ==
    \/ BuildClibCommand
    \/ CheckCython
    \/ RunClib
    \/ ProbeSkip
    \/ ProbeEnter
    \/ ProbeCompile
    \/ ProbeLink
    \/ ProbeRun
    \/ ProbeReturn
    \/ PlanExtensions
    \/ Cythonize
    \/ \E i \in DOMAIN ext_modules : ParBegin(i)
    \/ \E i \in DOMAIN ext_modules : ParSet(i)
    \/ \E i \in DOMAIN ext_modules : ParCompile(i)
    \/ \E i \in DOMAIN ext_modules : ParRestore(i)
    \/ ParDone

\* The parallel runs explored: those of the setup script as it is, with the
\* list ext_modules and Cython installed.
InitPar == Init /\ declared = ext_modules /\ cythonize_ok

SpecPar == InitPar /\ [][NextPar]_vars

\* C13 (as claimed), with the declared list ext_modules: under the parallel
\* option, any two distinct modules are compiled in different directories
\* and no object path is written for both.
C13_DisjointDirectories ==
    declared = ext_modules =>
        \A a \in DOMAIN built : \A b \in DOMAIN built \ {a} :
            /\ built[a].dir # built[b].dir
            /\ \A o \in built[a].objects :
                ~\E q \in built[b].objects : q.dir = o.dir /\ q.src = o.src

====
